---- MODULE Spec2Model ----
(***************************************************************************)
(* Model of src/src/calculation.py: a command that seeds a reference       *)
(* store of price multipliers, reads instrument price rows from a CSV      *)
(* file, adjusts and filters them into per-instrument series, computes     *)
(* one statistic per instrument and prints the mapping.                    *)
(*                                                                         *)
(* Text is modelled as sequences of one-character strings, so that date    *)
(* and number parsing is computed the way the library computes it.         *)
(* Floating point values are modelled as exact rationals <<num, den>>      *)
(* in lowest terms with den > 0.                                           *)
(***************************************************************************)
EXTENDS Integers, Sequences, FiniteSets, TLC

\* ------------------------------------------------------------------ bounds

\* Longest input file made of arbitrary rows.
MaxRows == 2

\* Longest single-instrument input file with arbitrary values.
MaxSeries == 3

\* Longest single-instrument input file for the newest-ten rule.
MaxLong == 11

\* Most rows of such a file whose date differs from the date of the others.
MaxOdd == 2

\* Most invocations of the command explored against one reference store.
MaxRuns == 3

\* --------------------------------------------------------------- rationals

RECURSIVE GCD(_, _)
GCD(a, b) == IF b = 0 THEN a ELSE GCD(b, a % b)

Abs(n) == IF n < 0 THEN -n ELSE n

\* The rational n/d in lowest terms, d > 0.
Rat(n, d) ==
    LET g == GCD(Abs(n), d)
    IN  <<n \div g, d \div g>>

RatInt(n) == <<n, 1>>

RatAdd(a, b) == Rat(a[1] * b[2] + b[1] * a[2], a[2] * b[2])

RatMul(a, b) == Rat(a[1] * b[1], a[2] * b[2])

RatDivInt(a, n) == Rat(a[1], a[2] * n)

RatLeq(a, b) == a[1] * b[2] <= b[1] * a[2]

RECURSIVE RatSum(_)
RatSum(s) == IF s = <<>> THEN RatInt(0) ELSE RatAdd(Head(s), RatSum(Tail(s)))

\* ------------------------------------------------------------------- text

Digit == {"0", "1", "2", "3", "4", "5", "6", "7", "8", "9"}

DigitVal(c) ==
    CASE c = "0" -> 0 [] c = "1" -> 1 [] c = "2" -> 2 [] c = "3" -> 3
      [] c = "4" -> 4 [] c = "5" -> 5 [] c = "6" -> 6 [] c = "7" -> 7
      [] c = "8" -> 8 [] c = "9" -> 9

IsDigits(s) == \A i \in 1..Len(s) : s[i] \in Digit

RECURSIVE IntOf(_)
IntOf(s) ==
    IF s = <<>> THEN 0
    ELSE 10 * IntOf(SubSeq(s, 1, Len(s) - 1)) + DigitVal(s[Len(s)])

RECURSIVE Pow10(_)
Pow10(k) == IF k = 0 THEN 1 ELSE 10 * Pow10(k - 1)

\* str.lower() on ASCII letters; other characters are unchanged.
Lower(c) ==
    CASE c = "A" -> "a" [] c = "B" -> "b" [] c = "C" -> "c" [] c = "D" -> "d"
      [] c = "E" -> "e" [] c = "F" -> "f" [] c = "G" -> "g" [] c = "H" -> "h"
      [] c = "I" -> "i" [] c = "J" -> "j" [] c = "K" -> "k" [] c = "L" -> "l"
      [] c = "M" -> "m" [] c = "N" -> "n" [] c = "O" -> "o" [] c = "P" -> "p"
      [] c = "Q" -> "q" [] c = "R" -> "r" [] c = "S" -> "s" [] c = "T" -> "t"
      [] c = "U" -> "u" [] c = "V" -> "v" [] c = "W" -> "w" [] c = "X" -> "x"
      [] c = "Y" -> "y" [] c = "Z" -> "z"
      [] OTHER -> c

LowerAll(s) == [i \in 1..Len(s) |-> Lower(s[i])]

\* Positions of character c in s.
Positions(s, c) == {i \in 1..Len(s) : s[i] = c}

\* ------------------------------------------------------------------ float()

\* float(value) of line 24 on text over digits, sign, point and letters:
\* an optional sign, digits with at most one point and at least one digit.
\* The result is <<TRUE, rational>> or <<FALSE, 0>> for ValueError.
UnsignedFloat(s) ==
    LET dots == Positions(s, ".")
    IN  IF Cardinality(dots) > 1 THEN <<FALSE, RatInt(0)>>
        ELSE LET p == IF dots = {} THEN Len(s) + 1 ELSE CHOOSE i \in dots : TRUE
                 ip == SubSeq(s, 1, p - 1)
                 fp == SubSeq(s, p + 1, Len(s))
             IN  IF IsDigits(ip) /\ IsDigits(fp) /\ Len(ip) + Len(fp) > 0
                 THEN <<TRUE, Rat(IntOf(ip) * Pow10(Len(fp)) + IntOf(fp),
                                  Pow10(Len(fp)))>>
                 ELSE <<FALSE, RatInt(0)>>

ParseFloat(s) ==
    IF s # <<>> /\ Head(s) = "-"
    THEN LET u == UnsignedFloat(Tail(s))
         IN  <<u[1], <<-u[2][1], u[2][2]>>>>
    ELSE IF s # <<>> /\ Head(s) = "+" THEN UnsignedFloat(Tail(s))
    ELSE UnsignedFloat(s)

\* ------------------------------------------------------------------- dates

MonthAbbr ==
    << <<"j","a","n">>, <<"f","e","b">>, <<"m","a","r">>, <<"a","p","r">>,
       <<"m","a","y">>, <<"j","u","n">>, <<"j","u","l">>, <<"a","u","g">>,
       <<"s","e","p">>, <<"o","c","t">>, <<"n","o","v">>, <<"d","e","c">> >>

IsLeap(y) == y % 4 = 0 /\ (y % 100 # 0 \/ y % 400 = 0)

DaysInMonth(y, m) ==
    IF m = 2 THEN (IF IsLeap(y) THEN 29 ELSE 28)
    ELSE IF m \in {4, 6, 9, 11} THEN 30 ELSE 31

RECURSIVE DaysBeforeMonth(_, _)
DaysBeforeMonth(y, m) ==
    IF m = 1 THEN 0 ELSE DaysBeforeMonth(y, m - 1) + DaysInMonth(y, m - 1)

\* Proleptic Gregorian ordinal, day 1 = 0001-01-01 (a Monday).
ToOrdinal(d) ==
    LET y == d.year - 1
    IN  y * 365 + y \div 4 - y \div 100 + y \div 400
        + DaysBeforeMonth(d.year, d.month) + d.day

\* date.weekday(): Monday = 0 .. Sunday = 6.
Weekday(d) == (ToOrdinal(d) + 6) % 7

\* The %d directive: 3[0-1] | [1-2]\d | 0[1-9] | [1-9] | " "[1-9].
DayToken(s) ==
    \/ Len(s) = 2 /\ s[1] = "3" /\ s[2] \in {"0", "1"}
    \/ Len(s) = 2 /\ s[1] \in {"1", "2"} /\ s[2] \in Digit
    \/ Len(s) = 2 /\ s[1] = "0" /\ s[2] \in Digit \ {"0"}
    \/ Len(s) = 1 /\ s[1] \in Digit \ {"0"}
    \/ Len(s) = 2 /\ s[1] = " " /\ s[2] \in Digit \ {"0"}

DayValue(s) == IF s[1] = " " THEN DigitVal(s[2]) ELSE IntOf(s)

\* The %b directive: a month abbreviation, matched ignoring letter case.
MonthToken(s) == \E m \in 1..12 : MonthAbbr[m] = LowerAll(s)

MonthValue(s) == CHOOSE m \in 1..12 : MonthAbbr[m] = LowerAll(s)

\* The %Y directive: exactly four digits.
YearToken(s) == Len(s) = 4 /\ IsDigits(s)

\* datetime.datetime.strptime(date_str, '%d-%b-%Y') of line 61:
\* <<TRUE, date>> or <<FALSE, ...>> for ValueError.
NoDate == [year |-> 0, month |-> 0, day |-> 0]

Strptime(s) ==
    LET dashes == Positions(s, "-")
    IN  IF Cardinality(dashes) # 2 THEN <<FALSE, NoDate>>
        ELSE LET p1 == CHOOSE i \in dashes : \A j \in dashes : i <= j
                 p2 == CHOOSE i \in dashes : \A j \in dashes : j <= i
                 ds == SubSeq(s, 1, p1 - 1)
                 ms == SubSeq(s, p1 + 1, p2 - 1)
                 ys == SubSeq(s, p2 + 1, Len(s))
             IN  IF ~(DayToken(ds) /\ MonthToken(ms) /\ YearToken(ys))
                 THEN <<FALSE, NoDate>>
                 ELSE LET d == [year  |-> IntOf(ys),
                                month |-> MonthValue(ms),
                                day   |-> DayValue(ds)]
                      IN  IF d.year >= 1 /\ d.day <= DaysInMonth(d.year, d.month)
                          THEN <<TRUE, d>>
                          ELSE <<FALSE, NoDate>>

\* A slip in line 78: Saturday counted as a business day.
is_business_day_sat(date) == Weekday(date) < 6

\* is_business_day, line 78.
is_business_day(date) == Weekday(date) < 5

\* ------------------------------------------------------------------ inputs

\* Date fields of input rows, as text.
\* "05-Nov-2014" (Wednesday)
D05Nov14 == <<"0","5","-","N","o","v","-","2","0","1","4">>

\* "06-Nov-2014" (Thursday)
D06Nov14 == <<"0","6","-","N","o","v","-","2","0","1","4">>

\* "08-Nov-2014" (Saturday)
D08Nov14 == <<"0","8","-","N","o","v","-","2","0","1","4">>

\* "09-Nov-2014" (Sunday)
D09Nov14 == <<"0","9","-","N","o","v","-","2","0","1","4">>

\* "03-Nov-2014" (Monday)
D03Nov14 == <<"0","3","-","N","o","v","-","2","0","1","4">>

\* "03-Dec-2014" (Wednesday)
D03Dec14 == <<"0","3","-","D","e","c","-","2","0","1","4">>

\* "05-Nov-2015" (Thursday)
D05Nov15 == <<"0","5","-","N","o","v","-","2","0","1","5">>

\* "01-Jan-2015" (Thursday)
D01Jan15 == <<"0","1","-","J","a","n","-","2","0","1","5">>

\* "02-Jan-2015" (Friday)
D02Jan15 == <<"0","2","-","J","a","n","-","2","0","1","5">>

\* "5-Nov-2014" (one-digit day)
DOneDigit == <<"5","-","N","o","v","-","2","0","1","4">>

\* "05-nov-2014" (lower-case month)
DLowerMonth == <<"0","5","-","n","o","v","-","2","0","1","4">>

\* "05-NOV-2014" (upper-case month)
DUpperMonth == <<"0","5","-","N","O","V","-","2","0","1","4">>

\* "31-Nov-2014" (no such day)
D31Nov14 == <<"3","1","-","N","o","v","-","2","0","1","4">>

\* "2014-11-05" (another format)
DIso == <<"2","0","1","4","-","1","1","-","0","5">>

\* "05-Nov-14" (two-digit year)
DShortYear == <<"0","5","-","N","o","v","-","1","4">>

\* "05-November-2014" (full month name)
DLongMonth == <<"0","5","-","N","o","v","e","m","b","e","r","-","2","0","1","4">>

DigitChars == <<"0", "1", "2", "3", "4", "5", "6", "7", "8", "9">>

\* The decimal text of a natural number.
RECURSIVE ToChars(_)
ToChars(n) ==
    IF n < 10 THEN <<DigitChars[n + 1]>>
    ELSE ToChars(n \div 10) \o <<DigitChars[(n % 10) + 1]>>

\* A value field that is not a number.
VNotNumeric == <<"a", "b", "c">>

RECURSIVE Pow2(_)
Pow2(k) == IF k = 0 THEN 1 ELSE 2 * Pow2(k - 1)

SeqsUpTo(S, k) == UNION {[1..n -> S] : n \in 0..k}

Names == {"INSTRUMENT1", "INSTRUMENT2", "INSTRUMENT3", "XYZ"}

\* Rows csv.reader can hand over that do not unpack into a numeric triple:
\* a blank line, a two-field line, a four-field line, a non-numeric value.
MalformedRows ==
    { <<>>,
      <<"XYZ", D05Nov14>>,
      <<"INSTRUMENT1", D05Nov14, ToChars(7), ToChars(7)>>,
      <<"INSTRUMENT1", D05Nov14, VNotNumeric>> }

GeneralRows ==
    {<<n, d, ToChars(v)>> : n \in Names, d \in {D05Nov14, D08Nov14}, v \in {100, 7}}
        \cup MalformedRows

AllDates ==
    {D05Nov14, D06Nov14, D08Nov14, D09Nov14, D03Nov14, D03Dec14, D05Nov15,
     D01Jan15, D02Jan15, DOneDigit, DLowerMonth, DUpperMonth, D31Nov14, DIso,
     DShortYear, DLongMonth}

\* Short files of arbitrary rows.
GeneralFiles == SeqsUpTo(GeneralRows, MaxRows)

\* Short files of one instrument over every date text.
DateFiles == SeqsUpTo({<<"INSTRUMENT1", d, ToChars(7)>> : d \in AllDates}, MaxRows)

\* Files of one named-rule instrument, dates in and out of November 2014.
SeriesFiles ==
    UNION { SeqsUpTo({<<n, d, ToChars(v)>> :
                         d \in {D05Nov14, D03Dec14, D05Nov15}, v \in {100, 200}},
                     MaxSeries)
            : n \in {"INSTRUMENT1", "INSTRUMENT2", "INSTRUMENT3"} }

\* Files of one default-rule instrument around the newest-ten cut-off: all
\* rows but at most MaxOdd carry one of two business days and the others carry
\* the other day; row i carries the value 2^(i-1), so that a sum tells which
\* rows were added up.
FewOf(n) == {S \in SUBSET (1..n) : Cardinality(S) <= MaxOdd}

LongFiles ==
    UNION { { [i \in 1..n |-> <<"XYZ", IF i \in S THEN odd ELSE D02Jan15,
                                ToChars(Pow2(i - 1))>>]
                : S \in FewOf(n), odd \in {D01Jan15, D05Nov15} }
            : n \in (MaxLong - 1)..MaxLong }

ExampleMean ==
    << <<"INSTRUMENT1", D05Nov14, ToChars(100)>>,
       <<"INSTRUMENT1", D06Nov14, ToChars(200)>>,
       <<"INSTRUMENT1", D08Nov14, ToChars(300)>> >>

ExampleSingle == << <<"INSTRUMENT3", D03Nov14, ToChars(10)>> >>

ExampleSum ==
    << <<"XYZ", D01Jan15, ToChars(5)>>, <<"XYZ", D02Jan15, ToChars(7)>> >>

ExampleFiles == {ExampleMean, ExampleSingle, ExampleSum}

\* Files tried over several invocations against one reference store.
StoreFiles ==
    { <<>>, ExampleMean,
      << <<"INSTRUMENT2", D03Dec14, ToChars(7)>> >>,
      << <<"INSTRUMENT1", D05Nov14, VNotNumeric>> >> }

Files == GeneralFiles \cup DateFiles \cup SeriesFiles \cup LongFiles \cup ExampleFiles

\* Third command-line argument texts.
ArgOverwrite == <<"o","v","e","r","w","r","i","t","e">>

ArgOverwriteUpper == <<"O","V","E","R","W","R","I","T","E">>

ArgOther == <<"k","e","e","p">>

\* ------------------------------------------------------------------- state

VARIABLES
    file,               \* rows csv.reader yields for the input file
    budget,             \* invocations of the command still to be explored
    pc,                 \* where the invocation stands
    overwrite,          \* main's overwrite flag, until line 159 has read it
    store,              \* the reference store file: [exists, rows]
    conn_open,          \* the sqlite3 connection is open
    file_open,          \* the input file is open
    pos,                \* rows of the file consumed so far
    instrument_prices,  \* insertion-ordered mapping: <<[name, prices]>>
    ci,                 \* entries of instrument_prices already summarised
    results,            \* insertion-ordered mapping: <<[name, value]>>
    output,             \* what was printed
    err                 \* the exception that ended the run, if any

vars == <<file, budget, pc, overwrite, store, conn_open, file_open, pos,
          instrument_prices, ci, results, output, err>>

Terminal == {"done", "usage", "error"}

\* --------------------------------------------------------- reference store

SeedName == "INSTRUMENT1"

\* 1.5
SeedMultiplier == Rat(3, 2)

\* 1.0
DefaultMultiplier == RatInt(1)

NoStore == [exists |-> FALSE, rows |-> <<>>]

\* setup_database, lines 118-128: the store file after the call.
setup_database(st, ow) ==
    IF st.exists /\ ~ow
    THEN st
    ELSE [exists |-> TRUE,
          rows   |-> Append(st.rows, [id         |-> Len(st.rows) + 1,
                                      name       |-> SeedName,
                                      multiplier |-> SeedMultiplier])]

\* A slip in line 142: the WHERE clause left out.
get_multiplier_any(st, instrument_name) ==
    IF st.rows = <<>> THEN DefaultMultiplier ELSE st.rows[1].multiplier

\* get_multiplier, lines 141-144: the first matching row, else 1.0.
get_multiplier(st, instrument_name) ==
    LET hits == {i \in 1..Len(st.rows) : st.rows[i].name = instrument_name}
    IN  IF hits = {} THEN DefaultMultiplier
        ELSE st.rows[CHOOSE i \in hits : \A j \in hits : i <= j].multiplier

\* --------------------------------------------------------------- ingestion

KeysOf(m) == {m[i].name : i \in 1..Len(m)}

IndexOf(m, name) == CHOOSE i \in 1..Len(m) : m[i].name = name

\* instrument_prices[instrument_name].append(item) on a defaultdict(deque).
AppendTo(m, name, item) ==
    IF name \in KeysOf(m)
    THEN [m EXCEPT ![IndexOf(m, name)].prices = Append(@, item)]
    ELSE Append(m, [name |-> name, prices |-> <<item>>])

\* A slip in lines 60-66: the defaultdict entry is touched before the date is
\* checked, so a discarded record still creates its key.
process_date_touching(m, instrument_name, date_str, value) ==
    LET parsed == Strptime(date_str)
        touched == IF instrument_name \in KeysOf(m) THEN m
                   ELSE Append(m, [name |-> instrument_name, prices |-> <<>>])
    IN  IF parsed[1] /\ is_business_day(parsed[2])
        THEN AppendTo(m, instrument_name, [date |-> parsed[2], value |-> value])
        ELSE touched

\* process_date, lines 60-66.
process_date(m, instrument_name, date_str, value) ==
    LET parsed == Strptime(date_str)
    IN  IF ~parsed[1] THEN m
        ELSE IF is_business_day(parsed[2])
             THEN AppendTo(m, instrument_name, [date |-> parsed[2], value |-> value])
             ELSE m

\* The unpacking and float() of lines 23-24 succeed on this row.
RowUnpacks(row) == Len(row) = 3 /\ ParseFloat(row[3])[1]

\* Lines 41-43: one well-formed row taken into the mapping.
IngestRow(m, st, row) ==
    LET multiplier == get_multiplier(st, row[1])
        value      == RatMul(ParseFloat(row[3])[2], multiplier)
    IN  process_date(m, row[1], row[2], value)

\* -------------------------------------------------------------- statistics

ValuesOf(prices) == [i \in 1..Len(prices) |-> prices[i].value]

\* Ascending sort of rationals.
RECURSIVE SortAsc(_)
SortAsc(vs) ==
    IF vs = <<>> THEN <<>>
    ELSE LET x == vs[Len(vs)]
             t == SortAsc(SubSeq(vs, 1, Len(vs) - 1))
             k == Cardinality({i \in 1..Len(t) : RatLeq(t[i], x)})
         IN  SubSeq(t, 1, k) \o <<x>> \o SubSeq(t, k + 1, Len(t))

\* A slip in line 100: the middle of the data as it stands, not sorted.
MedianUnsorted(vs) ==
    LET n == Len(vs)
    IN  IF n % 2 = 1 THEN vs[(n + 1) \div 2]
        ELSE RatDivInt(RatAdd(vs[n \div 2], vs[n \div 2 + 1]), 2)

\* statistics.median of a non-empty sequence.
Median(vs) ==
    LET t == SortAsc(vs)
        n == Len(t)
    IN  IF n % 2 = 1 THEN t[(n + 1) \div 2]
        ELSE RatDivInt(RatAdd(t[n \div 2], t[n \div 2 + 1]), 2)

\* A slip in line 93: the median taken where the mean is meant.
MeanAsMedian(vs) == Median(vs)

\* statistics.mean of a non-empty sequence.
Mean(vs) == RatDivInt(RatSum(vs), Len(vs))

\* A slip in line 103: an ascending sort reversed, which turns the order of
\* equal dates around.
RECURSIVE SortedReversed(_)
SortedReversed(prices) ==
    IF prices = <<>> THEN <<>>
    ELSE LET x == prices[Len(prices)]
             t == SortedReversed(SubSeq(prices, 1, Len(prices) - 1))
             k == Cardinality({i \in 1..Len(t) :
                                 ToOrdinal(t[i].date) > ToOrdinal(x.date)})
         IN  SubSeq(t, 1, k) \o <<x>> \o SubSeq(t, k + 1, Len(t))

\* sorted(prices, key=lambda x: x[0], reverse=True): stable, newest first.
RECURSIVE SortedNewestFirst(_)
SortedNewestFirst(prices) ==
    IF prices = <<>> THEN <<>>
    ELSE LET x == prices[Len(prices)]
             t == SortedNewestFirst(SubSeq(prices, 1, Len(prices) - 1))
             k == Cardinality({i \in 1..Len(t) :
                                 ToOrdinal(t[i].date) >= ToOrdinal(x.date)})
         IN  SubSeq(t, 1, k) \o <<x>> \o SubSeq(t, k + 1, Len(t))

\* The slice bound of line 103.
Newest == 10

Min(a, b) == IF a <= b THEN a ELSE b

\* A slip in line 95: the year left out of the test.
InAnyNovember(p) == p.date.month = 11

InNov2014(p) == p.date.year = 2014 /\ p.date.month = 11

\* Lines 92-104 for one entry of the mapping: a value, no entry, or an error.
Statistic(entry) ==
    LET prices == entry.prices
    IN  IF entry.name = "INSTRUMENT1"
        THEN IF prices = <<>> THEN [kind |-> "error", value |-> RatInt(0)]
             ELSE [kind |-> "value", value |-> Mean(ValuesOf(prices))]
        ELSE IF entry.name = "INSTRUMENT2"
        THEN LET nov_2014_prices == ValuesOf(SelectSeq(prices, InNov2014))
             IN  IF nov_2014_prices = <<>>
                 THEN [kind |-> "error", value |-> RatInt(0)]
                 ELSE [kind |-> "value", value |-> Mean(nov_2014_prices)]
        ELSE IF entry.name = "INSTRUMENT3"
        THEN IF Len(prices) > 1
             THEN [kind |-> "value", value |-> Median(ValuesOf(prices))]
             ELSE [kind |-> "absent", value |-> RatInt(0)]
        ELSE LET newest_prices ==
                     SubSeq(SortedNewestFirst(prices), 1, Min(Newest, Len(prices)))
             IN  [kind |-> "value", value |-> RatSum(ValuesOf(newest_prices))]

\* ----------------------------------------------------------------- actions

Init ==
    /\ \/ file \in Files /\ budget = 1
       \/ file \in StoreFiles /\ budget = MaxRuns
    /\ pc = "idle"
    /\ overwrite = FALSE
    /\ store = NoStore
    /\ conn_open = FALSE
    /\ file_open = FALSE
    /\ pos = 0
    /\ instrument_prices = <<>>
    /\ ci = 0
    /\ results = <<>>
    /\ output = <<>>
    /\ err = "none"

\* Lines 170-181: the command line is checked and main is entered.
Invoke ==
    /\ pc = "idle"
    /\ budget > 0
    /\ budget' = budget - 1
    /\ \E argc \in 1..5, third \in {ArgOverwrite, ArgOverwriteUpper, ArgOther} :
          IF argc < 3
          THEN /\ output' = Append(output, [kind |-> "usage", map |-> <<>>])
               /\ pc' = "usage"
               /\ UNCHANGED overwrite
          ELSE /\ overwrite' = (argc = 4 /\ LowerAll(third) = ArgOverwrite)
               /\ pc' = "setup"
               /\ UNCHANGED output
    /\ UNCHANGED <<file, store, conn_open, file_open, pos, instrument_prices,
                   ci, results, err>>

\* Line 159: conn = setup_database(db_file, overwrite). The flag is not read
\* again, so the state forgets it.
SetupDatabase ==
    /\ pc = "setup"
    /\ store' = setup_database(store, overwrite)
    /\ conn_open' = TRUE
    /\ overwrite' = FALSE
    /\ pc' = "open"
    /\ UNCHANGED <<file, budget, file_open, pos, instrument_prices,
                   ci, results, output, err>>

\* Line 20: the generator's first step opens the input file.
OpenInput ==
    /\ pc = "open"
    /\ file_open' = TRUE
    /\ pc' = "read"
    /\ UNCHANGED <<file, budget, overwrite, store, conn_open, pos,
                   instrument_prices, ci, results, output, err>>

\* A slip in lines 22-24: a row that does not unpack is skipped the way a row
\* with a malformed date is.
ReadRowSkipping ==
    /\ pc = "read"
    /\ pos < Len(file)
    /\ LET row == file[pos + 1]
       IN  instrument_prices' = IF RowUnpacks(row)
                                THEN IngestRow(instrument_prices, store, row)
                                ELSE instrument_prices
    /\ pos' = pos + 1
    /\ UNCHANGED <<file, budget, pc, overwrite, store, conn_open, file_open, ci,
                   results, output, err>>

\* Lines 22-24 and 39-43: one row is read, unpacked, adjusted and filed; a row
\* that does not unpack raises ValueError through the with block and main.
ReadRow ==
    /\ pc = "read"
    /\ pos < Len(file)
    /\ LET row == file[pos + 1]
       IN  IF RowUnpacks(row)
           THEN /\ instrument_prices' = IngestRow(instrument_prices, store, row)
                /\ pos' = pos + 1
                /\ UNCHANGED <<pc, err, file_open>>
           ELSE /\ file_open' = FALSE
                /\ err' = "ValueError"
                /\ pc' = "error"
                /\ UNCHANGED <<instrument_prices, pos>>
    /\ UNCHANGED <<file, budget, overwrite, store, conn_open, ci, results, output>>

\* The reader is exhausted: the with block of line 20 closes the file and
\* read_instrument_prices returns (line 44).
EndOfInput ==
    /\ pc = "read"
    /\ pos = Len(file)
    /\ file_open' = FALSE
    /\ pc' = "calc"
    /\ UNCHANGED <<file, budget, overwrite, store, conn_open, pos,
                   instrument_prices, ci, results, output, err>>

\* Lines 91-104: one iteration of calculate_statistics' loop.
CalcStep ==
    /\ pc = "calc"
    /\ ci < Len(instrument_prices)
    /\ LET entry == instrument_prices[ci + 1]
           stat  == Statistic(entry)
       IN  IF stat.kind = "error"
           THEN /\ err' = "StatisticsError"
                /\ pc' = "error"
                /\ UNCHANGED <<ci, results>>
           ELSE /\ results' = IF stat.kind = "value"
                              THEN Append(results, [name  |-> entry.name,
                                                    value |-> stat.value])
                              ELSE results
                /\ ci' = ci + 1
                /\ UNCHANGED <<pc, err>>
    /\ UNCHANGED <<file, budget, overwrite, store, conn_open, file_open, pos,
                   instrument_prices, output>>

\* Lines 105 and 168: calculate_statistics returns and main prints the mapping.
PrintResults ==
    /\ pc = "calc"
    /\ ci = Len(instrument_prices)
    /\ output' = Append(output, [kind |-> "results", map |-> results])
    /\ pc' = "done"
    /\ UNCHANGED <<file, budget, overwrite, store, conn_open, file_open, pos,
                   instrument_prices, ci, results, err>>

\* The process has ended; the command is invoked again on the same store.
Restart ==
    /\ pc \in Terminal
    /\ budget > 0
    /\ pc' = "idle"
    /\ overwrite' = FALSE
    /\ conn_open' = FALSE
    /\ file_open' = FALSE
    /\ pos' = 0
    /\ instrument_prices' = <<>>
    /\ ci' = 0
    /\ results' = <<>>
    /\ output' = <<>>
    /\ err' = "none"
    /\ UNCHANGED <<file, budget, store>>

Next ==
    \/ Invoke
    \/ SetupDatabase
    \/ OpenInput
    \/ ReadRow
    \/ EndOfInput
    \/ CalcStep
    \/ PrintResults
    \/ Restart

Spec == Init /\ [][Next]_vars

\* ----------------------------------------------------------------- helpers

\* The rows read so far.
Consumed == SubSeq(file, 1, pos)

\* The series kept under a name; empty when the name is no key.
SeriesOf(name) ==
    IF name \in KeysOf(instrument_prices)
    THEN instrument_prices[IndexOf(instrument_prices, name)].prices
    ELSE <<>>

HasResult(name) == \E i \in 1..Len(results) : results[i].name = name

ResultOf(name) == results[CHOOSE i \in 1..Len(results) : results[i].name = name].value

\* The literal DD-Mon-YYYY shape: two digits, a capitalised three-letter
\* month abbreviation, four digits.
TitleCase(m) ==
    /\ m[1] # Lower(m[1])
    /\ m[2] = Lower(m[2])
    /\ m[3] = Lower(m[3])

StrictShape(s) ==
    /\ Len(s) = 11
    /\ s[3] = "-" /\ s[7] = "-"
    /\ IsDigits(SubSeq(s, 1, 2)) /\ IsDigits(SubSeq(s, 8, 11))
    /\ TitleCase(SubSeq(s, 4, 6))
    /\ \E m \in 1..12 : MonthAbbr[m] = LowerAll(SubSeq(s, 4, 6))

\* The date texts of the inputs that strptime accepts, and the day each names.
Accepted == {s \in AllDates : Strptime(s)[1]}

DayNamed == [s \in Accepted |-> Strptime(s)[2]]

\* Those that name a Monday..Friday.
OnWeekday == {s \in Accepted : Weekday(DayNamed[s]) \in 0..4}

\* Those of the literal DD-Mon-YYYY shape.
StrictlyShaped == {s \in Accepted : StrictShape(s)}

\* The value texts of the inputs and the number each reads as.
ValueTexts ==
    {ToChars(v) : v \in {5, 7, 10, 100, 200, 300}}
        \cup {ToChars(Pow2(i)) : i \in 0..MaxLong}

NumberRead == [s \in ValueTexts |-> ParseFloat(s)[2]]

\* The rows read so far of one instrument whose date text is in Keep.
RowsKept(name, Keep) == SelectSeq(Consumed, LAMBDA r : r[1] = name /\ r[2] \in Keep)

\* ------------------------------------------------------------------ claims

StoredMultiplier(name) ==
    IF \E i \in 1..Len(store.rows) : store.rows[i].name = name
    THEN store.rows[CHOOSE i \in 1..Len(store.rows) : store.rows[i].name = name].multiplier
    ELSE RatInt(1)

\* C2: every stored value is the raw value times the stored multiplier of its
\* instrument, 1.0 when the store has none, and reading rows leaves the store
\* as it is.
C2_AdjustedOnce ==
    /\ [](\A n \in Names :
            LET rows   == RowsKept(n, OnWeekday)
                m      == StoredMultiplier(n)
                series == SeriesOf(n)
            IN  /\ Len(series) = Len(rows)
                /\ \A i \in 1..Len(rows) :
                      LET raw == NumberRead[rows[i][3]]
                      IN  series[i].value = Rat(raw[1] * m[1], raw[2] * m[2]))
    /\ [][(pc \in {"open", "read", "calc"}) => (store' = store)]_vars

\* C2 witness: values 100 and 7 stored as 150 for INSTRUMENT1 and 7 for XYZ.
C2_Witness ==
    /\ pc = "done"
    /\ ValuesOf(SeriesOf("INSTRUMENT1")) = <<Rat(150, 1)>>
    /\ ValuesOf(SeriesOf("XYZ")) = <<Rat(7, 1)>>

\* The entry of a name has been summarised by calculate_statistics' loop.
Processed(name) ==
    /\ name \in KeysOf(instrument_prices)
    /\ IndexOf(instrument_prices, name) <= ci

\* The run ended in calculate_statistics, at the entry of this name.
FailedAt(name) ==
    /\ pc = "error" /\ err = "StatisticsError"
    /\ ci < Len(instrument_prices)
    /\ instrument_prices[ci + 1].name = name

\* The input date texts that name a day of November 2014.
InNovember2014 ==
    {D05Nov14, D06Nov14, D08Nov14, D09Nov14, D03Nov14, DOneDigit, DLowerMonth,
     DUpperMonth}

\* The adjusted values of the rows of a name kept under Keep, from the input.
AdjustedKept(name, Keep) ==
    LET rows == RowsKept(name, Keep)
    IN  [i \in 1..Len(rows) |-> RatMul(NumberRead[rows[i][3]], StoredMultiplier(name))]

\* C3: the INSTRUMENT2 result is the mean of exactly the adjusted values dated
\* November 2014; with no such value the run ends in an error at that entry,
\* with no INSTRUMENT2 result and nothing printed.
C3_Instrument2Mean ==
    LET nov == AdjustedKept("INSTRUMENT2", OnWeekday \cap InNovember2014)
    IN  /\ Processed("INSTRUMENT2") =>
              /\ nov # <<>>
              /\ HasResult("INSTRUMENT2")
              /\ RatMul(ResultOf("INSTRUMENT2"), RatInt(Len(nov))) = RatSum(nov)
        /\ nov = <<>> => ~HasResult("INSTRUMENT2")
        /\ (pc = "done" /\ "INSTRUMENT2" \in KeysOf(instrument_prices)) => nov # <<>>
        /\ (pc = "error" /\ err = "StatisticsError") =>
              FailedAt("INSTRUMENT2") /\ nov = <<>> /\ output = <<>>

\* C3 witness: an INSTRUMENT2 series with observations, none of November 2014,
\* ended the run in an error.
C3_Witness ==
    /\ FailedAt("INSTRUMENT2")
    /\ Len(SeriesOf("INSTRUMENT2")) >= 2
    /\ \E i \in 1..Len(SeriesOf("INSTRUMENT2")) :
          SeriesOf("INSTRUMENT2")[i].date.month = 11

RatLt(a, b) == a[1] * b[2] < b[1] * a[2]

\* The k-th smallest of a sequence of rationals, by counting.
KthSmallest(vs, k) ==
    CHOOSE x \in {vs[i] : i \in 1..Len(vs)} :
        /\ Cardinality({i \in 1..Len(vs) : RatLt(vs[i], x)}) < k
        /\ Cardinality({i \in 1..Len(vs) : RatLeq(vs[i], x)}) >= k

MiddleValue(vs) ==
    LET n == Len(vs)
    IN  IF n % 2 = 1 THEN KthSmallest(vs, (n + 1) \div 2)
        ELSE RatDivInt(RatAdd(KthSmallest(vs, n \div 2),
                              KthSmallest(vs, n \div 2 + 1)), 2)

\* C4: once summarised, INSTRUMENT3 has a result iff its series has more than
\* one observation, the result is the median of all its values, and the entry
\* never raises an error.
C4_Instrument3Median ==
    LET vals == ValuesOf(SeriesOf("INSTRUMENT3"))
    IN  /\ Processed("INSTRUMENT3") =>
              /\ HasResult("INSTRUMENT3") <=> Len(vals) > 1
              /\ Len(vals) > 1 => ResultOf("INSTRUMENT3") = MiddleValue(vals)
        /\ ~Processed("INSTRUMENT3") => ~HasResult("INSTRUMENT3")
        /\ ~FailedAt("INSTRUMENT3")

\* C4 witness: a single INSTRUMENT3 observation, and a printed mapping with no
\* entry for it.
C4_Witness ==
    /\ pc = "done"
    /\ file = ExampleSingle
    /\ Len(SeriesOf("INSTRUMENT3")) = 1
    /\ output = <<[kind |-> "results", map |-> <<>>]>>

\* The positions of a series that a stable newest-first order puts among the
\* first ten: fewer than ten observations are newer, or equally old and earlier.
AmongNewestTen(prices) ==
    {i \in 1..Len(prices) :
        Cardinality({j \in 1..Len(prices) :
                        \/ ToOrdinal(prices[j].date) > ToOrdinal(prices[i].date)
                        \/ /\ ToOrdinal(prices[j].date) = ToOrdinal(prices[i].date)
                           /\ j < i}) < 10}

\* C5: the result of any other instrument is the sum of the values of the
\* first min(10, n) observations in stable newest-first order.
C5_DefaultNewestTen ==
    \A n \in Names \ {"INSTRUMENT1", "INSTRUMENT2", "INSTRUMENT3"} :
        Processed(n) =>
            LET prices == SeriesOf(n)
                among  == AmongNewestTen(prices)
            IN  /\ HasResult(n)
                /\ ResultOf(n) = RatSum([i \in 1..Len(prices) |->
                                            IF i \in among THEN prices[i].value
                                            ELSE RatInt(0)])
                /\ Len(prices) <= 10 => ResultOf(n) = RatSum(ValuesOf(prices))

\* C5 witness: more than ten observations, with two of one date on either side
\* of the cut-off.
C5_Witness ==
    /\ pc = "done"
    /\ LET prices == SeriesOf("XYZ")
           among  == AmongNewestTen(prices)
       IN  /\ Len(prices) > 10
           /\ \E i \in among, j \in (1..Len(prices)) \ among :
                 prices[i].date = prices[j].date

\* C6: the INSTRUMENT1 result is the mean of all its adjusted values whatever
\* their dates, and the three-row example gives series [150, 300] and 225.
C6_Instrument1Mean ==
    /\ Processed("INSTRUMENT1") =>
          LET vals == AdjustedKept("INSTRUMENT1", OnWeekday)
          IN  /\ vals # <<>>
              /\ HasResult("INSTRUMENT1")
              /\ RatMul(ResultOf("INSTRUMENT1"), RatInt(Len(vals))) = RatSum(vals)
    /\ (file = ExampleMean /\ pc = "done") =>
          /\ instrument_prices =
                << [name   |-> "INSTRUMENT1",
                    prices |-> << [date  |-> [year |-> 2014, month |-> 11, day |-> 5],
                                   value |-> <<150, 1>>],
                                  [date  |-> [year |-> 2014, month |-> 11, day |-> 6],
                                   value |-> <<300, 1>>] >>] >>
          /\ output = << [kind |-> "results",
                          map  |-> <<[name |-> "INSTRUMENT1", value |-> <<225, 1>>]>>] >>

\* C6 witness: the three-row example has run to its end.
C6_Witness ==
    /\ file = ExampleMean
    /\ pc = "done"
    /\ pos = 3

\* A row of three fields whose third is one of the numeric value texts.
WellFormed(row) == Len(row) = 3 /\ row[3] \in ValueTexts

Printed == {i \in 1..Len(output) : output[i].kind = "results"}

\* C7: statistics are printed at most once, and only when every row of the
\* input has been read, none was malformed or skipped, and every entry has been
\* summarised; a run that ended in an error printed nothing.
C7_PrintOnlyAfterAll ==
    /\ Len(output) <= 1
    /\ \A i \in 1..pos : WellFormed(file[i])
    /\ pc \in {"calc", "done"} => pos = Len(file)
    /\ Printed # {} =>
          /\ pc = "done"
          /\ err = "none"
          /\ pos = Len(file)
          /\ ci = Len(instrument_prices)
          /\ \A i \in 1..Len(file) : WellFormed(file[i])
          /\ output[1].map = results
    /\ pc = "done" => Printed # {}
    /\ pc = "error" => output = <<>> /\ err # "none"

\* C7 witness: a malformed row after a row already filed ended the run with
\* nothing printed.
C7_Witness ==
    /\ pc = "error"
    /\ err = "ValueError"
    /\ pos >= 1
    /\ instrument_prices # <<>>
    /\ output = <<>>

\* C8 as stated: when a run has ended, the input file and the connection to
\* the reference store have both been released.
C8_ReleasedAtExit ==
    pc \in Terminal => ~file_open /\ ~conn_open

\* C9 as stated: an existing store holds exactly the baseline, one
\* INSTRUMENT1 -> 1.5 row, whatever sequence of seeding calls it has seen.
C9_StoreIsBaseline ==
    store.exists =>
        store.rows = <<[id |-> 1, name |-> "INSTRUMENT1", multiplier |-> <<3, 2>>]>>

\* C10: a name is a key iff one of its rows was retained, no series is empty,
\* the result keys are ingested keys, a finished run lacks only INSTRUMENT3 with
\* a single observation, and no INSTRUMENT1 mean is taken of nothing.
C10_KeysAndResults ==
    /\ \A n \in Names :
          n \in KeysOf(instrument_prices) <=> RowsKept(n, OnWeekday) # <<>>
    /\ \A i \in 1..Len(instrument_prices) : instrument_prices[i].prices # <<>>
    /\ Cardinality(KeysOf(instrument_prices)) = Len(instrument_prices)
    /\ {results[i].name : i \in 1..Len(results)} \subseteq KeysOf(instrument_prices)
    /\ pc = "done" =>
          \A n \in KeysOf(instrument_prices) :
              ~HasResult(n) <=> (n = "INSTRUMENT3" /\ Len(SeriesOf(n)) = 1)
    /\ ~FailedAt("INSTRUMENT1")

\* C10 witness: every row of one instrument was discarded and it is no key,
\* while another instrument is one.
C10_Witness ==
    /\ pc = "done"
    /\ instrument_prices # <<>>
    /\ \E i \in 1..Len(file) : file[i][1] \notin KeysOf(instrument_prices)

====
